---- MODULE Spec2Model ----
(***************************************************************************)
(* Model of services/autopost.py: the AutoPostService.run() coroutine,     *)
(* the text helpers it uses (normalize_post_text, the 250-character clamp),*)
(* TwitterClient.post and the collaborators run() calls (quota gate,       *)
(* history store, generator, platform).                                    *)
(*                                                                         *)
(* Python str values are sequences of Unicode code points, so that strip,  *)
(* slicing and len are computed character by character.  Other Python      *)
(* values are tagged records (None, str, dict, int).                       *)
(***************************************************************************)
EXTENDS Integers, Sequences, FiniteSets, TLC

\* ------------------------------------------------------------------------
\* Bounds of the model
\* ------------------------------------------------------------------------
\* time.time() is read in steps of 0.05 s, from 0 to MaxClock steps
MaxClock == 1
\* the generator outputs built around the limit pass it by MaxOver
\* characters (or hold MaxOver whitespace characters where the cut falls)
MaxOver == 2

\* the run() invocations in flight (coroutines on one event loop)
Runs == {"run1", "run2"}

\* ------------------------------------------------------------------------
\* Program constants
\* ------------------------------------------------------------------------
MAX_CHARS == 250

\* limit=40 of the history fetch
HISTORY_LIMIT == 40

\* FALLBACK_TWEETS, character by character (code points; 8217 is the
\* typographic apostrophe, 32 the space)
FALLBACK_TWEETS ==
  <<
    << 115, 112, 101, 110, 116, 32, 104, 111, 117, 114, 115, 32, 109, 97, 112, 112, 105,
       110, 103, 32, 108, 101, 118, 101, 108, 115, 44, 32, 115, 99, 101, 110, 97, 114, 105,
       111, 115, 44, 32, 97, 110, 100, 32, 105, 110, 118, 97, 108, 105, 100, 97, 116, 105,
       111, 110, 115, 46, 32, 101, 110, 116, 101, 114, 101, 100, 32, 97, 110, 121, 119, 97,
       121, 32, 119, 105, 116, 104, 32, 110, 111, 32, 115, 116, 111, 112, 32, 98, 101, 99,
       97, 117, 115, 101, 32, 105, 116, 32, 102, 101, 108, 116, 32, 114, 105, 103, 104, 116,
       46, 32, 112, 114, 105, 99, 101, 32, 105, 109, 109, 101, 100, 105, 97, 116, 101, 108,
       121, 32, 115, 104, 111, 119, 101, 100, 32, 109, 101, 32, 119, 104, 121, 32, 102, 101,
       101, 108, 105, 110, 103, 115, 32, 97, 114, 101, 32, 110, 111, 116, 32, 97, 32, 115,
       116, 114, 97, 116, 101, 103, 121, 46 >>,
    << 101, 118, 101, 114, 121, 32, 116, 114, 97, 100, 101, 32, 115, 116, 97, 114, 116, 115,
       32, 119, 105, 116, 104, 32, 99, 111, 110, 102, 105, 100, 101, 110, 99, 101, 44, 32,
       115, 108, 111, 119, 108, 121, 32, 116, 117, 114, 110, 115, 32, 105, 110, 116, 111,
       32, 104, 111, 112, 101, 44, 32, 116, 104, 101, 110, 32, 101, 110, 100, 115, 32, 119,
       105, 116, 104, 32, 97, 99, 99, 101, 112, 116, 97, 110, 99, 101, 46, 32, 115, 111,
       109, 101, 104, 111, 119, 32, 105, 32, 115, 116, 105, 108, 108, 32, 97, 99, 116, 32,
       115, 117, 114, 112, 114, 105, 115, 101, 100, 32, 119, 104, 101, 110, 32, 116, 104,
       101, 32, 99, 121, 99, 108, 101, 32, 114, 101, 112, 101, 97, 116, 115, 32, 101, 120,
       97, 99, 116, 108, 121, 32, 116, 104, 101, 32, 115, 97, 109, 101, 32, 119, 97, 121, 46 >>,
    << 119, 97, 116, 99, 104, 101, 100, 32, 112, 114, 105, 99, 101, 32, 114, 101, 115, 112,
       101, 99, 116, 32, 109, 121, 32, 108, 101, 118, 101, 108, 115, 32, 112, 101, 114, 102,
       101, 99, 116, 108, 121, 32, 119, 104, 105, 108, 101, 32, 105, 32, 104, 101, 115, 105,
       116, 97, 116, 101, 100, 46, 32, 101, 110, 116, 101, 114, 101, 100, 32, 108, 97, 116,
       101, 44, 32, 115, 105, 122, 101, 100, 32, 116, 111, 111, 32, 98, 105, 103, 44, 32,
       97, 110, 100, 32, 98, 108, 97, 109, 101, 100, 32, 101, 120, 101, 99, 117, 116, 105,
       111, 110, 32, 105, 110, 115, 116, 101, 97, 100, 32, 111, 102, 32, 116, 104, 101, 32,
       111, 98, 118, 105, 111, 117, 115, 32, 108, 97, 99, 107, 32, 111, 102, 32, 100, 105,
       115, 99, 105, 112, 108, 105, 110, 101, 46 >>,
    << 116, 111, 108, 100, 32, 109, 121, 115, 101, 108, 102, 32, 105, 32, 119, 97, 115, 32,
       119, 97, 105, 116, 105, 110, 103, 32, 102, 111, 114, 32, 99, 111, 110, 102, 105, 114,
       109, 97, 116, 105, 111, 110, 46, 32, 119, 104, 97, 116, 32, 105, 32, 114, 101, 97,
       108, 108, 121, 32, 100, 105, 100, 32, 119, 97, 115, 32, 119, 97, 105, 116, 32, 117,
       110, 116, 105, 108, 32, 116, 104, 101, 32, 114, 105, 115, 107, 32, 119, 97, 115, 32,
       119, 111, 114, 115, 101, 32, 97, 110, 100, 32, 116, 104, 101, 32, 114, 101, 119, 97,
       114, 100, 32, 119, 97, 115, 32, 103, 111, 110, 101, 46 >>,
    << 97, 110, 111, 116, 104, 101, 114, 32, 116, 114, 97, 100, 101, 32, 119, 104, 101, 114,
       101, 32, 105, 32, 119, 97, 115, 32, 114, 105, 103, 104, 116, 32, 97, 98, 111, 117,
       116, 32, 100, 105, 114, 101, 99, 116, 105, 111, 110, 44, 32, 119, 114, 111, 110, 103,
       32, 97, 98, 111, 117, 116, 32, 116, 105, 109, 105, 110, 103, 44, 32, 97, 110, 100,
       32, 97, 98, 115, 111, 108, 117, 116, 101, 108, 121, 32, 99, 111, 110, 102, 105, 100,
       101, 110, 116, 32, 105, 116, 32, 119, 111, 117, 108, 100, 32, 115, 116, 105, 108,
       108, 32, 119, 111, 114, 107, 32, 111, 117, 116, 32, 97, 110, 121, 119, 97, 121, 46 >>,
    << 105, 32, 100, 111, 110, 8217, 116, 32, 99, 104, 97, 115, 101, 32, 116, 111, 112, 115,
       32, 111, 114, 32, 98, 111, 116, 116, 111, 109, 115, 46, 32, 105, 32, 99, 104, 97,
       115, 101, 32, 116, 104, 101, 32, 102, 101, 101, 108, 105, 110, 103, 32, 116, 104, 97,
       116, 32, 116, 104, 105, 115, 32, 116, 105, 109, 101, 32, 105, 32, 102, 105, 110, 97,
       108, 108, 121, 32, 102, 105, 103, 117, 114, 101, 100, 32, 105, 116, 32, 111, 117,
       116, 46 >>,
    << 116, 104, 101, 32, 112, 108, 97, 110, 32, 119, 97, 115, 32, 115, 105, 109, 112, 108,
       101, 46, 32, 116, 104, 101, 32, 101, 120, 101, 99, 117, 116, 105, 111, 110, 32, 119,
       97, 115, 110, 8217, 116, 46, 32, 116, 104, 101, 32, 114, 101, 115, 117, 108, 116, 32,
       119, 97, 115, 32, 112, 114, 101, 100, 105, 99, 116, 97, 98, 108, 101, 46 >>
  >>

SYSTEM_PROMPT == "You are a degen trading Twitter account. ..."

\* the keys normalize_post_text looks up, in order
TEXT_KEYS == <<"post", "text", "content", "tweet">>

\* ------------------------------------------------------------------------
\* Python values
\* ------------------------------------------------------------------------
None == [t |-> "None"]

Str(s) == [t |-> "str", v |-> s]

Dict(d) == [t |-> "dict", v |-> d]

PyInt(n) == [t |-> "int", n |-> n]

EmptyDict == [k \in {} |-> None]

\* bool(x)
Truthy(x) ==
  CASE x.t = "None" -> FALSE
    [] x.t = "str" -> Len(x.v) > 0
    [] x.t = "dict" -> DOMAIN x.v # {}
    [] x.t = "int" -> x.n # 0
    [] OTHER -> TRUE

\* the code points c with chr(c).isspace()
Whitespace ==
  {9, 10, 11, 12, 13, 28, 29, 30, 31, 32, 133, 160, 5760} \cup (8192..8202)
    \cup {8232, 8233, 8239, 8287, 12288}

\* index of the first non-whitespace character of s, Len(s) + 1 if none
FirstNonWs(s) ==
  CHOOSE i \in 1..(Len(s) + 1) :
     /\ i = Len(s) + 1 \/ s[i] \notin Whitespace
     /\ \A j \in 1..(i - 1) : s[j] \in Whitespace

\* index of the last non-whitespace character of s, 0 if none
\* (scanning from the right end: k characters are dropped)
LastNonWs(s) ==
  LET k == CHOOSE k \in 0..Len(s) :
              /\ k = Len(s) \/ s[Len(s) - k] \notin Whitespace
              /\ \A i \in (Len(s) - k + 1)..Len(s) : s[i] \in Whitespace
  IN Len(s) - k

\* str.strip()
strip(s) == SubSeq(s, FirstNonWs(s), LastNonWs(s))

\* str.rstrip()
rstrip(s) == SubSeq(s, 1, LastNonWs(s))

\* s[:n]
Slice(s, n) == SubSeq(s, 1, IF n < Len(s) THEN n ELSE Len(s))

\* dict.get(key)
DictGet(d, key) == IF key \in DOMAIN d THEN d[key] ELSE None

\* the isinstance test alone: a blank string passes
IsStrOnly(value) == value.t = "str"

\* isinstance(value, str) and value.strip()
IsUsableStr(value) == value.t = "str" /\ Len(strip(value.v)) > 0

\* random.choice(FALLBACK_TWEETS) can return any element
FallbackPicks == 1..Len(FALLBACK_TWEETS)

\* normalize_post_text returning the last usable key instead of the first
normalize_last_key(result, pick) ==
  IF IsUsableStr(result) THEN Str(strip(result.v))
  ELSE LET hits == IF result.t = "dict"
                   THEN {i \in 1..Len(TEXT_KEYS) : IsUsableStr(DictGet(result.v, TEXT_KEYS[i]))}
                   ELSE {}
       IN IF hits # {}
          THEN LET last == CHOOSE i \in hits : \A j \in hits : i >= j
               IN Str(strip(result.v[TEXT_KEYS[last]].v))
          ELSE Str(FALLBACK_TWEETS[pick])

\* normalize_post_text(result); pick is the index random.choice draws
normalize_post_text(result, pick) ==
  IF IsUsableStr(result) THEN Str(strip(result.v))
  ELSE LET hits == IF result.t = "dict"
                   THEN {i \in 1..Len(TEXT_KEYS) : IsUsableStr(DictGet(result.v, TEXT_KEYS[i]))}
                   ELSE {}
       IN IF hits # {}
          THEN LET first == CHOOSE i \in hits : \A j \in hits : i <= j
               IN Str(strip(result.v[TEXT_KEYS[first]].v))
          ELSE Str(FALLBACK_TWEETS[pick])

\* non-empty check that also falls back when the text is over the limit
EnsureFallbackIfLong(post_text, pick) ==
  LET s == strip(IF Truthy(post_text) THEN post_text.v ELSE <<>>)
  IN IF Len(s) = 0 \/ Len(s) > MAX_CHARS THEN FALLBACK_TWEETS[pick] ELSE s

\* run(), "Ensure non-empty string": (post_text or "").strip(), fallback if empty
EnsureNonEmpty(post_text, pick) ==
  LET s == strip(IF Truthy(post_text) THEN post_text.v ELSE <<>>)
  IN IF Len(s) = 0 THEN FALLBACK_TWEETS[pick] ELSE s

\* Clamp with the slice on the wrong side: post_text[MAX_CHARS:].rstrip()
ClampTail(post_text) == rstrip(SubSeq(post_text, MAX_CHARS + 1, Len(post_text)))

\* Clamp without the slice: only the trailing whitespace is removed
ClampNoCut(post_text) == rstrip(post_text)

\* Clamp at the old 140-character limit
ClampAt140(post_text) == rstrip(Slice(post_text, 140))

\* run(), "Clamp length": post_text[:MAX_CHARS].rstrip()
Clamp(post_text) == rstrip(Slice(post_text, MAX_CHARS))

\* the text run() hands to the platform for a generator result
FinalText(raw_result, pick1, pick2) ==
  Clamp(EnsureNonEmpty(normalize_post_text(raw_result, pick1), pick2))

\* ------------------------------------------------------------------------
\* Call outcomes and exceptions
\* ------------------------------------------------------------------------
Pending == [st |-> "pending"]

Ret(v) == [st |-> "ret", val |-> v]

Raise(e) == [st |-> "raise", exc |-> e]

\* an Exception instance; str(e) is its message
Exc(type, msg) == [type |-> type, msg |-> msg]

str(e) == e.msg

\* one entry of a run's record of collaborator calls
Call(fn, args, out) == [fn |-> fn, args |-> args, out |-> out]

\* ------------------------------------------------------------------------
\* Collaborator outcomes (inputs of the model)
\* ------------------------------------------------------------------------
\* tier_manager.can_post() -> (allowed, reason), or raises
CanPostOutcomes ==
  { Ret(<<TRUE, "ok">>), Ret(<<FALSE, "daily limit reached">>),
    Raise(Exc("RuntimeError", "tier lookup failed")) }

\* tier_manager.tier
TierOutcomes == { Ret("free"), Raise(Exc("AttributeError", "no attribute tier")) }

\* tier_manager.get_usage_percent()
UsageOutcomes == { Ret(100), Raise(Exc("RuntimeError", "usage unavailable")) }

\* db.get_recent_posts_formatted(limit) returns the formatted texts of the
\* last `limit` saved posts, or raises
get_recent_posts_formatted(posts, limit) ==
  LET n == Len(posts)
      from == IF n > limit THEN n - limit + 1 ELSE 1
  IN [i \in 1..(n - from + 1) |-> posts[from + i - 1].text]

FetchOutcomes(posts, limit) ==
  { Ret(get_recent_posts_formatted(posts, limit)),
    Raise(Exc("DatabaseError", "connection lost")) }

\* db.save_post(...) returns None or raises
SaveOutcomes == { Ret(None), Raise(Exc("DatabaseError", "insert failed")) }

\* n copies of the character c
Rep(c, n) == [i \in 1..n |-> c]

\* what llm.chat() can return in a run: plain text (short, padded, at, just
\* over and far over the limit, cut inside trailing whitespace), structured
\* objects, and unusable values
GeneratorOutputs ==
  { Str(<<32, 103, 109, 32, 10>>),
    Str(Rep(97, MAX_CHARS)),
    Str(Rep(97, MAX_CHARS - 1) \o Rep(32, MaxOver) \o <<98>>),
    Str(Rep(97, 2 * MAX_CHARS + 100)),
    Dict([text |-> Str(<<32>> \o Rep(98, MAX_CHARS + MaxOver))]),
    Dict([post |-> Str(<<>>), tweet |-> Str(<<121, 111>>)]),
    None }

ChatOutcomes ==
  {Ret(g) : g \in GeneratorOutputs} \cup {Raise(Exc("LLMError", "provider timeout"))}

\* what Client.create_tweet() can do: raise, or answer with response.data
\* None, an empty dict, a dict without "id", or a dict with the new id
CreateTweetKinds == {"raise", "no_data", "empty", "no_id", "created"}

CreateTweetOutcome(kind, text, new_id) ==
  CASE kind = "raise" -> Raise(Exc("TweepyException", "403 Forbidden"))
    [] kind = "no_data" -> Ret(None)
    [] kind = "empty" -> Ret(Dict(EmptyDict))
    [] kind = "no_id" -> Ret(Dict([text |-> Str(text)]))
    [] kind = "created" -> Ret(Dict([id |-> PyInt(new_id), text |-> Str(text)]))

\* TwitterClient.post(text, media_ids); api is what create_tweet does
TwitterClient_post(text, media_ids, api) ==
  LET t == strip(IF Truthy(text) THEN text.v ELSE <<>>)
  IN IF Len(t) = 0 /\ Len(media_ids) = 0
     THEN Raise(Exc("ValueError", "Cannot post empty tweet: must provide text or media"))
     ELSE IF api.st = "raise" THEN api
     ELSE IF api.val = None
     THEN Raise(Exc("AttributeError", "'NoneType' object has no attribute 'get'"))
     ELSE Ret(api.val.v)

\* ------------------------------------------------------------------------
\* State
\* ------------------------------------------------------------------------
VARIABLES
  tier_manager,  \* self.tier_manager: None or the quota collaborator
  db,            \* the posts the persistence store holds, oldest first
  timeline,      \* the tweets the platform has created; a tweet's id is its index
  pc,            \* per run: "idle", the await it is suspended at, or "done"
  start_time,    \* per run: local start_time
  post_text,     \* per run: local post_text once clamped
  tweet_data,    \* per run: local tweet_data
  outcome,       \* per run: Pending, then how run() ended: Ret(dict) or Raise(e)
  calls,         \* per run: the collaborator calls made so far, in order
  norm_in,       \* text helpers on their own: the value given to normalize_post_text
  norm_out,      \* ... Pending, then Ret(what normalize_post_text returned)
  clamp_out      \* ... Pending, then Ret(the text after the non-empty check and the clamp)

runVars == <<tier_manager, db, timeline, pc, start_time, post_text, tweet_data, outcome, calls>>

textVars == <<norm_in, norm_out, clamp_out>>

vars == <<runVars, textVars>>

TierManager == [t |-> "TierManager"]

\* round(seconds, 1) of d steps of 0.05 s, in tenths of a second; a float
\* that is an odd multiple of 0.05 rounds to either neighbour
Round1(d) == IF d % 2 = 0 THEN {d \div 2} ELSE {d \div 2, d \div 2 + 1}

\* what time.time() can return: any instant of the (bounded) clock
Clock == 0..MaxClock

\* time.time() read again by a run that read t0 at its start
Later(t0) == {t \in Clock : t >= t0}

\* round(time.time() - start_time, 1) for the instants a run started at
\* `start` can read, in tenths of a second
Durations(start) == UNION {Round1(t - start) : t \in Later(start)}

\* the log with the outcome of its last (pending) call filled in
SetOut(log, out) == [log EXCEPT ![Len(log)].out = out]

\* self.safe_chat(messages): any exception of llm.chat becomes None
safe_chat(gen) == IF gen.st = "raise" THEN None ELSE gen.val

\* the messages run() builds around previous_posts
Messages(previous_posts) ==
  << [role |-> "system", content |-> SYSTEM_PROMPT],
     [role |-> "user", content |-> previous_posts] >>

\* for every outcome of llm.chat(), the texts run() can end up with after
\* safe_chat, normalize_post_text, the non-empty check and the clamp
ChatTexts ==
  UNION { { [gen |-> gen, text |-> FinalText(safe_chat(gen), p1, p2)] :
              p1 \in FallbackPicks, p2 \in FallbackPicks } : gen \in ChatOutcomes }

\* tier check without the "if self.tier_manager" guard: None.can_post()
TierCheckNoGuard(tm, gate, tierOut, usageOut) ==
  IF ~Truthy(tm)
  THEN [kind |-> "raise", calls |-> <<>>,
        exc |-> Exc("AttributeError", "'NoneType' object has no attribute 'can_post'")]
  ELSE IF gate.st = "raise"
  THEN [kind |-> "raise", calls |-> <<Call("can_post", <<>>, gate)>>, exc |-> gate.exc]
  ELSE IF gate.val[1] THEN [kind |-> "proceed", calls |-> <<Call("can_post", <<>>, gate)>>]
  ELSE [kind |-> "return",
        calls |-> <<Call("can_post", <<>>, gate), Call("tier", <<>>, Ret("free")),
                    Call("get_usage_percent", <<>>, Ret(100))>>,
        result |-> [success |-> FALSE, error |-> "posting_blocked: " \o gate.val[2],
                    tier |-> "free", usage_percent |-> 100]]

\* tier check that swallows an exception of can_post() and goes on
TierCheckSwallowsRaise(tm, gate, tierOut, usageOut) ==
  IF ~Truthy(tm) THEN [kind |-> "proceed", calls |-> <<>>]
  ELSE IF gate.st = "raise" \/ gate.val[1]
  THEN [kind |-> "proceed", calls |-> <<Call("can_post", <<>>, gate)>>]
  ELSE [kind |-> "return",
        calls |-> <<Call("can_post", <<>>, gate), Call("tier", <<>>, Ret("free")),
                    Call("get_usage_percent", <<>>, Ret(100))>>,
        result |-> [success |-> FALSE, error |-> "posting_blocked: " \o gate.val[2],
                    tier |-> "free", usage_percent |-> 100]]

\* Tier check left out: the gate is never asked
TierCheckSkipped(tm, gate, tierOut, usageOut) == [kind |-> "proceed", calls |-> <<>>]

\* Tier check that asks the gate and goes on whatever it answers
TierCheckIgnoresDenial(tm, gate, tierOut, usageOut) ==
  IF ~Truthy(tm) THEN [kind |-> "proceed", calls |-> <<>>]
  ELSE IF gate.st = "raise"
  THEN [kind |-> "raise", calls |-> <<Call("can_post", <<>>, gate)>>, exc |-> gate.exc]
  ELSE [kind |-> "proceed", calls |-> <<Call("can_post", <<>>, gate)>>]

\* run(), "Tier check": the calls made and whether run() goes on, returns
\* the blocked result, or raises into the except clause
TierCheck(tm, gate, tierOut, usageOut) ==
  IF ~Truthy(tm) THEN [kind |-> "proceed", calls |-> <<>>]
  ELSE LET c1 == Call("can_post", <<>>, gate)
           c2 == Call("tier", <<>>, tierOut)
           c3 == Call("get_usage_percent", <<>>, usageOut)
       IN IF gate.st = "raise" THEN [kind |-> "raise", calls |-> <<c1>>, exc |-> gate.exc]
          ELSE IF gate.val[1] THEN [kind |-> "proceed", calls |-> <<c1>>]
          ELSE IF tierOut.st = "raise"
          THEN [kind |-> "raise", calls |-> <<c1, c2>>, exc |-> tierOut.exc]
          ELSE IF usageOut.st = "raise"
          THEN [kind |-> "raise", calls |-> <<c1, c2, c3>>, exc |-> usageOut.exc]
          ELSE [kind |-> "return", calls |-> <<c1, c2, c3>>,
                result |-> [success |-> FALSE,
                            error |-> "posting_blocked: " \o gate.val[2],
                            tier |-> tierOut.val,
                            usage_percent |-> usageOut.val]]

\* except clause that reports a fixed message instead of str(e)
FailureGenericMessage(e, duration) ==
  [success |-> FALSE, error |-> "autopost failed", duration_seconds |-> duration]

\* the dict the except clause of run() returns
Failure(e, duration) ==
  [success |-> FALSE, error |-> str(e), duration_seconds |-> duration]

\* the dict run() returns after a successful save
Success(data, text, duration) ==
  [success |-> TRUE, tweet_id |-> data["id"], text |-> text, duration_seconds |-> duration]

\* "if not tweet_data or 'id' not in tweet_data"
InvalidResponse(data) == DOMAIN data = {} \/ "id" \notin DOMAIN data

\* except clause that catches RuntimeError only: anything else escapes run()
ExceptClauseNarrow(e, duration) ==
  IF e.type = "RuntimeError" THEN Ret(Failure(e, duration)) ELSE Raise(e)

\* "except Exception as e": every exception raised inside the try block is
\* turned into the failure dict, which run() returns
ExceptClause(e, duration) == Ret(Failure(e, duration))

\* publish step that drops a post whose text the store already holds
PublishStepSkipsDuplicate(posted) ==
  IF posted.st = "raise" THEN [kind |-> "raise", exc |-> posted.exc]
  ELSE IF InvalidResponse(posted.val)
  THEN [kind |-> "raise",
        exc |-> Exc("RuntimeError", "Twitter post returned invalid response")]
  ELSE IF \E k \in 1..Len(db) : Str(db[k].text) = posted.val["text"]
  THEN [kind |-> "raise", exc |-> Exc("RuntimeError", "duplicate post")]
  ELSE [kind |-> "save", data |-> posted.val]

\* publish step without the validity check, reading the id with .get("id")
PublishStepUnchecked(posted) ==
  IF posted.st = "raise" THEN [kind |-> "raise", exc |-> posted.exc]
  ELSE [kind |-> "save",
        data |-> [k \in DOMAIN posted.val \cup {"id"} |-> DictGet(posted.val, k)]]

\* what run() does with the outcome of twitter.post: raise into the except
\* clause, or go on to save the post
PublishStep(posted) ==
  IF posted.st = "raise" THEN [kind |-> "raise", exc |-> posted.exc]
  ELSE IF InvalidResponse(posted.val)
  THEN [kind |-> "raise",
        exc |-> Exc("RuntimeError", "Twitter post returned invalid response")]
  ELSE [kind |-> "save", data |-> posted.val]

\* save_post called with include_picture=True
SaveArgsWithPicture(text, data) == <<text, data["id"], TRUE>>

\* save_post called with the wrong field of the response
SaveArgsWrongField(text, data) == <<text, data["text"], FALSE>>

\* the arguments of db.save_post(post_text, tweet_data["id"], include_picture=False)
SaveArgs(text, data) == <<text, data["id"], FALSE>>

\* the Post Record save_post(text, tweet_id, include_picture) stores
PostRecord(args) == [text |-> args[1], tweet_id |-> args[2], include_picture |-> args[3]]

\* run() ends with out: its frame (the locals) is gone
Finish(r, out) ==
  /\ pc' = [pc EXCEPT ![r] = "done"]
  /\ outcome' = [outcome EXCEPT ![r] = out]
  /\ start_time' = [start_time EXCEPT ![r] = 0]
  /\ post_text' = [post_text EXCEPT ![r] = <<>>]
  /\ tweet_data' = [tweet_data EXCEPT ![r] = EmptyDict]

Init ==
  /\ tier_manager \in {None, TierManager}
  /\ db = <<>>
  /\ timeline = <<>>
  /\ pc = [r \in Runs |-> "idle"]
  /\ start_time = [r \in Runs |-> 0]
  /\ post_text = [r \in Runs |-> <<>>]
  /\ tweet_data = [r \in Runs |-> EmptyDict]
  /\ outcome = [r \in Runs |-> Pending]
  /\ calls = [r \in Runs |-> <<>>]
  /\ norm_in = None
  /\ norm_out = Pending
  /\ clamp_out = Pending

\* run() behind a lock: a run starts only while no other run is in flight
StartLocked(r) ==
  /\ pc[r] = "idle"
  /\ \A o \in Runs \ {r} : pc[o] \in {"idle", "done"}
  /\ \E t0 \in Clock, gate \in CanPostOutcomes, tierOut \in TierOutcomes,
        usageOut \in UsageOutcomes :
       LET step == TierCheck(tier_manager, gate, tierOut, usageOut)
           fetch == Call("get_recent_posts_formatted", <<HISTORY_LIMIT>>, Pending)
       IN IF step.kind = "proceed"
          THEN /\ pc' = [pc EXCEPT ![r] = "fetch"]
               /\ start_time' = [start_time EXCEPT ![r] = t0]
               /\ calls' = [calls EXCEPT ![r] = step.calls \o <<fetch>>]
               /\ UNCHANGED <<post_text, tweet_data, outcome>>
          ELSE /\ calls' = [calls EXCEPT ![r] = step.calls]
               /\ \E dur \in Durations(t0) :
                    Finish(r, IF step.kind = "return" THEN Ret(step.result)
                              ELSE ExceptClause(step.exc, dur))
  /\ UNCHANGED <<tier_manager, db, timeline, textVars>>

\* run() from its first line to the first await: the tier check, then the
\* call of db.get_recent_posts_formatted(limit=40)
Start(r) ==
  /\ pc[r] = "idle"
  /\ \E t0 \in Clock, gate \in CanPostOutcomes, tierOut \in TierOutcomes,
        usageOut \in UsageOutcomes :
       LET step == TierCheck(tier_manager, gate, tierOut, usageOut)
           fetch == Call("get_recent_posts_formatted", <<HISTORY_LIMIT>>, Pending)
       IN IF step.kind = "proceed"
          THEN /\ pc' = [pc EXCEPT ![r] = "fetch"]
               /\ start_time' = [start_time EXCEPT ![r] = t0]
               /\ calls' = [calls EXCEPT ![r] = step.calls \o <<fetch>>]
               /\ UNCHANGED <<post_text, tweet_data, outcome>>
          ELSE /\ calls' = [calls EXCEPT ![r] = step.calls]
               /\ \E dur \in Durations(t0) :
                    Finish(r, IF step.kind = "return" THEN Ret(step.result)
                              ELSE ExceptClause(step.exc, dur))
  /\ UNCHANGED <<tier_manager, db, timeline, textVars>>

\* the history fetch returns or raises; on return run() builds the messages
\* and calls safe_chat -> llm.chat
FetchReturn(r) ==
  /\ pc[r] = "fetch"
  /\ \E out \in FetchOutcomes(db, HISTORY_LIMIT) :
       IF out.st = "raise"
       THEN /\ calls' = [calls EXCEPT ![r] = SetOut(@, out)]
            /\ \E dur \in Durations(start_time[r]) : Finish(r, ExceptClause(out.exc, dur))
       ELSE /\ calls' = [calls EXCEPT ![r] =
                           Append(SetOut(@, out), Call("chat", <<Messages(out.val)>>, Pending))]
            /\ pc' = [pc EXCEPT ![r] = "chat"]
            /\ UNCHANGED <<start_time, post_text, tweet_data, outcome>>
  /\ UNCHANGED <<tier_manager, db, timeline, textVars>>

\* llm.chat returns or raises; run() normalizes and clamps the text, posts
\* it (TwitterClient.post has no await of its own) and, given a response
\* with an id, calls db.save_post
ChatReturn(r) ==
  /\ pc[r] = "chat"
  /\ \E gt \in ChatTexts, kind \in CreateTweetKinds :
       LET api == CreateTweetOutcome(kind, strip(gt.text), Len(timeline) + 1)
           posted == TwitterClient_post(Str(gt.text), <<>>, api)
           log == Append(SetOut(calls[r], gt.gen), Call("post", <<gt.text>>, posted))
           step == PublishStep(posted)
       IN /\ timeline' = IF posted.st = "ret" /\ kind = "created"
                         THEN Append(timeline, strip(gt.text)) ELSE timeline
          /\ IF step.kind = "raise"
             THEN /\ calls' = [calls EXCEPT ![r] = log]
                  /\ \E dur \in Durations(start_time[r]) :
                       Finish(r, ExceptClause(step.exc, dur))
             ELSE /\ calls' = [calls EXCEPT ![r] =
                                 Append(log, Call("save_post", SaveArgs(gt.text, step.data),
                                                  Pending))]
                  /\ post_text' = [post_text EXCEPT ![r] = gt.text]
                  /\ tweet_data' = [tweet_data EXCEPT ![r] = step.data]
                  /\ pc' = [pc EXCEPT ![r] = "save"]
                  /\ UNCHANGED <<start_time, outcome>>
  /\ UNCHANGED <<tier_manager, db, textVars>>

\* db.save_post returns or raises; run() returns the success dict or the
\* failure dict of its except clause
SaveReturn(r) ==
  /\ pc[r] = "save"
  /\ \E out \in SaveOutcomes :
       /\ calls' = [calls EXCEPT ![r] = SetOut(@, out)]
       /\ db' = IF out.st = "ret"
                THEN Append(db, PostRecord(calls[r][Len(calls[r])].args))
                ELSE db
       /\ \E dur \in Durations(start_time[r]) :
            Finish(r, IF out.st = "ret"
                      THEN Ret(Success(tweet_data[r], post_text[r], dur))
                      ELSE ExceptClause(out.exc, dur))
  /\ UNCHANGED <<tier_manager, timeline, textVars>>

Next ==
  \E r \in Runs : Start(r) \/ FetchReturn(r) \/ ChatReturn(r) \/ SaveReturn(r)

Spec == Init /\ [][Next]_vars

\* ------------------------------------------------------------------------
\* The text helpers on their own, over a wider set of generator outputs
\* ------------------------------------------------------------------------
\* a usable value for key TEXT_KEYS[i]: padded text that names the key
KeyText(i) == Str(<<32, 9, 96 + i, 33, 10>>)

\* the values a key of a structured output can hold: blank text, a
\* non-string, None, usable text
KeyValues(i) == {Str(<<32, 10>>), PyInt(7), None, KeyText(i)}

\* every dict over the four text-bearing keys and one unknown key
StructuredOutputs ==
  { Dict(d) : d \in UNION { UNION { [ {TEXT_KEYS[i] : i \in ks} \cup extra -> UNION {KeyValues(i) : i \in 1..Len(TEXT_KEYS)} \cup {Str(<<104, 105>>)} ]
                                    : extra \in {{}, {"message"}} }
                           : ks \in SUBSET (1..Len(TEXT_KEYS)) } }

\* dicts whose key TEXT_KEYS[i], when present, holds one of KeyValues(i)
WellKeyed(d) ==
  /\ \A i \in 1..Len(TEXT_KEYS) : TEXT_KEYS[i] \in DOMAIN d => d[TEXT_KEYS[i]] \in KeyValues(i)
  /\ "message" \in DOMAIN d => d["message"] = Str(<<104, 105>>)

PlainOutputs ==
  { Str(<<>>), Str(<<32>>), Str(<<9, 10, 13, 32, 160>>), Str(Rep(32, MAX_CHARS + MaxOver)),
    Str(<<103, 109>>), Str(<<32, 103, 32, 109, 10>>), Str(<<12288, 103, 109, 8232>>),
    Str(Rep(97, MAX_CHARS)), Str(Rep(97, MAX_CHARS + MaxOver)),
    Str(Rep(97, MAX_CHARS - 1) \o Rep(32, MaxOver) \o <<98>>),
    Str(Rep(32, MaxOver) \o Rep(97, MAX_CHARS) \o Rep(10, MaxOver)),
    Str(Rep(97, 2 * MAX_CHARS + 100)) }

OtherOutputs == { None, PyInt(0), PyInt(42), [t |-> "list"] }

NormalizerInputs ==
  PlainOutputs \cup OtherOutputs \cup {x \in StructuredOutputs : WellKeyed(x.v)}

InitText ==
  /\ tier_manager = None
  /\ db = <<>>
  /\ timeline = <<>>
  /\ pc = [r \in Runs |-> "idle"]
  /\ start_time = [r \in Runs |-> 0]
  /\ post_text = [r \in Runs |-> <<>>]
  /\ tweet_data = [r \in Runs |-> EmptyDict]
  /\ outcome = [r \in Runs |-> Pending]
  /\ calls = [r \in Runs |-> <<>>]
  /\ norm_in \in NormalizerInputs
  /\ norm_out = Pending
  /\ clamp_out = Pending

\* post_text = normalize_post_text(raw_result)
Normalize ==
  /\ norm_out = Pending
  /\ \E pick \in FallbackPicks : norm_out' = Ret(normalize_post_text(norm_in, pick))
  /\ UNCHANGED <<runVars, norm_in, clamp_out>>

\* the non-empty check and the clamp applied to the normalized text
ClampText ==
  /\ norm_out # Pending
  /\ clamp_out = Pending
  /\ \E pick \in FallbackPicks : clamp_out' = Ret(Clamp(EnsureNonEmpty(norm_out.val, pick)))
  /\ UNCHANGED <<runVars, norm_in, norm_out>>

NextText == Normalize \/ ClampText

SpecText == InitText /\ [][NextText]_vars

TypeOK ==
  /\ pc \in [Runs -> {"idle", "fetch", "chat", "save", "done"}]
  /\ start_time \in [Runs -> Clock]

\* ------------------------------------------------------------------------
\* Reading a run's record of calls
\* ------------------------------------------------------------------------
CallsOf(r, fn) == {i \in 1..Len(calls[r]) : calls[r][i].fn = fn}

RaisedIn(r, fn) == \E i \in CallsOf(r, fn) : calls[r][i].out.st = "raise"

ReturnedIn(r, fn) == \E i \in CallsOf(r, fn) : calls[r][i].out.st = "ret"

\* run() has returned a dict
Returned(r) == pc[r] = "done" /\ outcome[r].st = "ret"

\* the collaborator calls of a run
Stages ==
  {"can_post", "tier", "get_usage_percent", "get_recent_posts_formatted", "chat", "post",
   "save_post"}

\* can_post() answered not-allowed in run r
Denied(r) ==
  \E i \in CallsOf(r, "can_post") :
     calls[r][i].out.st = "ret" /\ ~calls[r][i].out.val[1]

DenialReason(r) ==
  LET i == CHOOSE i \in CallsOf(r, "can_post") : TRUE IN calls[r][i].out.val[2]

\* the platform post of run r returned a response that contains an id
PostGaveId(r) ==
  \E i \in CallsOf(r, "post") :
     calls[r][i].out.st = "ret" /\ "id" \in DOMAIN calls[r][i].out.val

\* the platform post of run r raised or returned a response without an id
PostFailed(r) ==
  \E i \in CallsOf(r, "post") :
     \/ calls[r][i].out.st = "raise"
     \/ calls[r][i].out.st = "ret" /\ "id" \notin DOMAIN calls[r][i].out.val

FallbackPool == {FALLBACK_TWEETS[i] : i \in 1..Len(FALLBACK_TWEETS)}

\* ------------------------------------------------------------------------
\* C1
\* ------------------------------------------------------------------------
\* a finished run returned a dict with a boolean success flag, and if one of
\* the stages in `stages` raised, the dict has success = false and an error
WellFormedResult(r, stages) ==
  /\ outcome[r].st = "ret"
  /\ "success" \in DOMAIN outcome[r].val
  /\ outcome[r].val.success \in BOOLEAN
  /\ (\E fn \in stages : RaisedIn(r, fn)) =>
       /\ outcome[r].val.success = FALSE
       /\ "error" \in DOMAIN outcome[r].val

\* C1 as stated: run() never raises to its caller and returns a dict with a
\* success flag; whenever any stage raised (the generator included) the
\* result has success = false and carries an error message.
C1_Original == \A r \in Runs : pc[r] = "done" => WellFormedResult(r, Stages)

\* C1, amended: run() never raises to its caller and returns a dict with a
\* success flag; whenever a stage other than the generator raised, the result
\* has success = false and carries an error message (an exception of the
\* generator is contained by safe_chat and the run may still succeed).
C1_NeverRaises == \A r \in Runs : pc[r] = "done" => WellFormedResult(r, Stages \ {"chat"})

\* a run whose save_post raised has returned a failure dict
C1_Witness ==
  \E r \in Runs :
     /\ Returned(r) /\ RaisedIn(r, "save_post")
     /\ ~outcome[r].val.success /\ "error" \in DOMAIN outcome[r].val

\* ------------------------------------------------------------------------
\* C2
\* ------------------------------------------------------------------------
\* C2: the text handed to the platform post call, the text passed to
\* save_post and stored, and the text reported in the result are each at most
\* MAX_CHARS (250) characters long, whatever the generator returned.
C2_TextWithinLimit ==
  /\ \A r \in Runs :
       /\ \A i \in CallsOf(r, "post") \cup CallsOf(r, "save_post") :
            Len(calls[r][i].args[1]) <= MAX_CHARS
       /\ Len(post_text[r]) <= MAX_CHARS
       /\ (Returned(r) /\ "text" \in DOMAIN outcome[r].val) =>
            Len(outcome[r].val.text) <= MAX_CHARS
  /\ \A i \in 1..Len(db) : Len(db[i].text) <= MAX_CHARS
  /\ \A i \in 1..Len(timeline) : Len(timeline[i]) <= MAX_CHARS

\* the generator returned a string longer than the limit and the run posted
\* exactly MAX_CHARS characters and reported them
C2_Witness ==
  \E r \in Runs :
     /\ \E i \in CallsOf(r, "chat") :
          /\ calls[r][i].out.st = "ret"
          /\ calls[r][i].out.val.t = "str"
          /\ Len(strip(calls[r][i].out.val.v)) > MAX_CHARS
     /\ Returned(r) /\ outcome[r].val.success
     /\ Len(outcome[r].val.text) = MAX_CHARS

\* ------------------------------------------------------------------------
\* C3
\* ------------------------------------------------------------------------
\* on denial the history fetch, the generator, the platform post and the
\* save are each called zero times
NoSideEffects(r) ==
  \A fn \in {"get_recent_posts_formatted", "chat", "post", "save_post"} : CallsOf(r, fn) = {}

\* C3 as stated: when can_post() reports not-allowed, run() returns success =
\* false carrying the reason, and makes none of the four calls.
C3_Original ==
  \A r \in Runs :
     (pc[r] = "done" /\ Denied(r)) =>
        /\ outcome[r].st = "ret"
        /\ outcome[r].val.success = FALSE
        /\ outcome[r].val.error = "posting_blocked: " \o DenialReason(r)
        /\ NoSideEffects(r)

\* C3, amended: when can_post() reports not-allowed, run() returns success =
\* false and makes none of the four calls; the result carries the reason when
\* the tier and get_usage_percent() accessors return, and the message of the
\* accessor's exception when one of them raises.
C3_DenialNoSideEffects ==
  \A r \in Runs :
     (pc[r] = "done" /\ Denied(r)) =>
        /\ outcome[r].st = "ret"
        /\ outcome[r].val.success = FALSE
        /\ NoSideEffects(r)
        /\ IF RaisedIn(r, "tier") \/ RaisedIn(r, "get_usage_percent")
           THEN \E i \in CallsOf(r, "tier") \cup CallsOf(r, "get_usage_percent") :
                   /\ calls[r][i].out.st = "raise"
                   /\ outcome[r].val.error = str(calls[r][i].out.exc)
           ELSE outcome[r].val.error = "posting_blocked: " \o DenialReason(r)

\* a denied run returned the blocked result with the reason
C3_Witness ==
  \E r \in Runs :
     /\ Returned(r) /\ Denied(r)
     /\ ReturnedIn(r, "get_usage_percent")
     /\ outcome[r].val.error = "posting_blocked: " \o DenialReason(r)

\* ------------------------------------------------------------------------
\* C4
\* ------------------------------------------------------------------------
\* C4: in every run save_post is called at most once, only after the platform
\* post of that run returned a response containing an id, and with that id.
C4_SaveOnlyAfterPost ==
  \A r \in Runs :
     /\ Cardinality(CallsOf(r, "save_post")) <= 1
     /\ \A i \in CallsOf(r, "save_post") :
          \E j \in CallsOf(r, "post") :
             /\ j < i
             /\ calls[r][j].out.st = "ret"
             /\ "id" \in DOMAIN calls[r][j].out.val
             /\ calls[r][i].args[2] = calls[r][j].out.val["id"]

\* a run has saved its post and the store holds the record
C4_Witness ==
  \E r \in Runs :
     /\ ReturnedIn(r, "save_post")
     /\ \E k \in 1..Len(db) : \E i \in CallsOf(r, "save_post") :
           db[k].tweet_id = calls[r][i].args[2]

\* ------------------------------------------------------------------------
\* C5
\* ------------------------------------------------------------------------
\* C5: when the platform post raises, or returns an empty response or one
\* without an id, save_post is never called in that run and run() returns
\* success = false.
C5_PublishFailure ==
  \A r \in Runs :
     PostFailed(r) =>
        /\ CallsOf(r, "save_post") = {}
        /\ pc[r] = "done"
        /\ outcome[r].st = "ret"
        /\ outcome[r].val.success = FALSE

\* the platform answered with a non-empty response that has no id
C5_Witness ==
  \E r \in Runs :
     /\ Returned(r)
     /\ \E i \in CallsOf(r, "post") :
          /\ calls[r][i].out.st = "ret"
          /\ DOMAIN calls[r][i].out.val # {}
          /\ "id" \notin DOMAIN calls[r][i].out.val

\* ------------------------------------------------------------------------
\* C6
\* ------------------------------------------------------------------------
\* C6: when the generator raises, the run still posts; the text posted,
\* saved and reported is exactly a member of the Fallback Pool, and the
\* result has success = true whenever the post returned an id and the save
\* completed.
C6_GeneratorFailureFallsBack ==
  \A r \in Runs :
     RaisedIn(r, "chat") =>
        /\ Cardinality(CallsOf(r, "post")) = 1
        /\ \A i \in CallsOf(r, "post") \cup CallsOf(r, "save_post") :
             calls[r][i].args[1] \in FallbackPool
        /\ (pc[r] = "done" /\ PostGaveId(r) /\ ReturnedIn(r, "save_post")) =>
             /\ outcome[r].st = "ret"
             /\ outcome[r].val.success = TRUE
             /\ outcome[r].val.text \in FallbackPool
             /\ \E i \in CallsOf(r, "post") : outcome[r].val.text = calls[r][i].args[1]

\* the generator raised and the run succeeded with a fallback text
C6_Witness ==
  \E r \in Runs :
     /\ RaisedIn(r, "chat") /\ Returned(r)
     /\ outcome[r].val.success
     /\ outcome[r].val.text \in FallbackPool

\* ------------------------------------------------------------------------
\* C7
\* ------------------------------------------------------------------------
\* C7: when the history fetch fails the run is not aborted: the generator is
\* still called, with an empty-history context, and the run goes on to post.
C7_FetchFailureDegrades ==
  \A r \in Runs :
     (pc[r] = "done" /\ RaisedIn(r, "get_recent_posts_formatted")) =>
        /\ \E i \in CallsOf(r, "chat") : calls[r][i].args[1][2].content = <<>>
        /\ CallsOf(r, "post") # {}

\* ------------------------------------------------------------------------
\* C9
\* ------------------------------------------------------------------------
\* C9: with a quota collaborator configured, every run queries can_post()
\* exactly once, before the history fetch and before any generator call.
C9_GateOnceAndFirst ==
  Truthy(tier_manager) =>
     \A r \in Runs :
        pc[r] # "idle" =>
           /\ Cardinality(CallsOf(r, "can_post")) = 1
           /\ \A i \in CallsOf(r, "get_recent_posts_formatted") \cup CallsOf(r, "chat") :
                \E j \in CallsOf(r, "can_post") : j < i

\* a gated run has gone through the fetch and called the generator
C9_Witness ==
  /\ Truthy(tier_manager)
  /\ \E r \in Runs : CallsOf(r, "can_post") # {} /\ CallsOf(r, "chat") # {}

\* ------------------------------------------------------------------------
\* C10
\* ------------------------------------------------------------------------
\* C10: every result run() returns, on the success path and on every
\* failure path, carries a duration_seconds field.
C10_DurationAlways ==
  \A r \in Runs : Returned(r) => "duration_seconds" \in DOMAIN outcome[r].val

\* ------------------------------------------------------------------------
\* C8
\* ------------------------------------------------------------------------
\* s is non-empty and has no whitespace at either end
Trimmed(s) == Len(s) > 0 /\ s[1] \notin Whitespace /\ s[Len(s)] \notin Whitespace

\* s is the trimmed text of the output itself or of one of its values
TakenFrom(result, s) ==
  \/ result.t = "str" /\ s = strip(result.v)
  \/ /\ result.t = "dict"
     /\ \E k \in DOMAIN result.v : result.v[k].t = "str" /\ s = strip(result.v[k].v)

\* C8 as stated: for every generator output normalize_post_text never raises
\* and yields either a non-empty trimmed string taken from the output or an
\* explicit "no result" signal (None).
C8_Original ==
  norm_out # Pending =>
     /\ norm_out.st = "ret"
     /\ \/ norm_out.val = None
        \/ /\ norm_out.val.t = "str"
           /\ Trimmed(norm_out.val.v)
           /\ TakenFrom(norm_in, norm_out.val.v)

\* C8, amended: for every generator output normalize_post_text never raises
\* and yields a non-empty trimmed string: one taken from the output, or a
\* member of the Fallback Pool; it never yields a "no result" signal.
C8_NormalizerTotal ==
  norm_out # Pending =>
     /\ norm_out.st = "ret"
     /\ norm_out.val.t = "str"
     /\ Trimmed(norm_out.val.v)
     /\ \/ TakenFrom(norm_in, norm_out.val.v)
        \/ norm_out.val.v \in FallbackPool

\* a structured output without usable text was normalized to a fallback text
C8_Witness ==
  /\ norm_in.t = "dict"
  /\ norm_out # Pending
  /\ ~TakenFrom(norm_in, norm_out.val.v)
  /\ norm_out.val.v \in FallbackPool

\* ------------------------------------------------------------------------
\* C11
\* ------------------------------------------------------------------------
\* t is s cut to its first MAX_CHARS characters with the trailing whitespace
\* of the cut removed: a prefix of s that ends in a non-whitespace character
\* and is followed, up to the cut, by whitespace only
IsClampOf(t, s) ==
  /\ Len(t) <= MAX_CHARS
  /\ Len(t) <= Len(s)
  /\ \A i \in 1..Len(t) : t[i] = s[i]
  /\ Len(t) > 0 => t[Len(t)] \notin Whitespace
  /\ \A i \in (Len(t) + 1)..Len(s) : i <= MAX_CHARS => s[i] \in Whitespace

\* the generator of run r returned a plain string with usable text
GaveUsableString(r) ==
  \E i \in CallsOf(r, "chat") :
     /\ calls[r][i].out.st = "ret"
     /\ calls[r][i].out.val.t = "str"
     /\ \E k \in 1..Len(calls[r][i].out.val.v) : calls[r][i].out.val.v[k] \notin Whitespace

\* the trimmed string the generator of run r returned
GeneratedTrimmed(r) ==
  LET i == CHOOSE i \in CallsOf(r, "chat") : TRUE IN strip(calls[r][i].out.val.v)

\* C11: for a generator output that is usable text, the text posted, saved
\* and reported is the trimmed output cut to its first 250 characters with
\* trailing whitespace then stripped (never a fallback text chosen because of
\* the length), and the run succeeds with the platform's id when the post
\* returns one and the save completes.
C11_GeneratedTextClamped ==
  \A r \in Runs :
     GaveUsableString(r) =>
        /\ \A i \in CallsOf(r, "post") \cup CallsOf(r, "save_post") :
             IsClampOf(calls[r][i].args[1], GeneratedTrimmed(r))
        /\ (pc[r] = "done" /\ PostGaveId(r) /\ ReturnedIn(r, "save_post")) =>
             /\ outcome[r].st = "ret"
             /\ outcome[r].val.success = TRUE
             /\ IsClampOf(outcome[r].val.text, GeneratedTrimmed(r))
             /\ \E j \in CallsOf(r, "post") :
                   outcome[r].val.tweet_id = calls[r][j].out.val["id"]

\* the generator returned 600 characters and the run succeeded with the
\* first 250 of them
C11_Witness ==
  \E r \in Runs :
     /\ GaveUsableString(r)
     /\ Len(GeneratedTrimmed(r)) = 2 * MAX_CHARS + 100
     /\ Returned(r) /\ outcome[r].val.success
     /\ Len(outcome[r].val.text) = MAX_CHARS

\* ------------------------------------------------------------------------
\* C12
\* ------------------------------------------------------------------------
\* the id the platform post of run r returned
PostedId(r) ==
  LET j == CHOOSE j \in CallsOf(r, "post") : TRUE IN calls[r][j].out.val["id"]

\* the text run r handed to the platform post
PostedText(r) ==
  LET j == CHOOSE j \in CallsOf(r, "post") : TRUE IN calls[r][j].args[1]

\* the runs whose save_post has completed
SavedRuns == {r \in Runs : ReturnedIn(r, "save_post")}

\* C12: every run whose platform post returned an id goes on to save (no
\* deduplication, whatever the store already holds), and every completed
\* save has created one Post Record of its own, carrying the text and the id
\* of that run's own post: two runs that publish give two records.
C12_OneRecordPerRun ==
  /\ \A r \in Runs : PostGaveId(r) => CallsOf(r, "save_post") # {}
  /\ Len(db) = Cardinality(SavedRuns)
  /\ \A r \in SavedRuns :
        Cardinality({k \in 1..Len(db) : db[k].tweet_id = PostedId(r)}) = 1
        /\ \E k \in 1..Len(db) :
              db[k] = [text |-> PostedText(r), tweet_id |-> PostedId(r),
                       include_picture |-> FALSE]

\* the second run started from a history that already held the first run's
\* text, published the same text again, and the store holds both records
C12_Witness ==
  \E a \in Runs, b \in Runs :
     /\ a # b
     /\ Returned(a) /\ outcome[a].val.success
     /\ Returned(b) /\ outcome[b].val.success
     /\ \E i \in CallsOf(b, "chat") :
          calls[b][i].args[1][2].content = <<outcome[a].val.text>>
     /\ outcome[a].val.text = outcome[b].val.text
     /\ Len(db) = 2 /\ db[1].text = db[2].text /\ db[1].tweet_id # db[2].tweet_id

\* ------------------------------------------------------------------------
\* C13
\* ------------------------------------------------------------------------
\* C13: with no quota collaborator configured, can_post() (and the tier and
\* usage accessors) are never called, no run ends blocked, every run that
\* has started has gone on to the history fetch, and every run whose fetch
\* has returned has gone on to the generator.
C13_NoGateWithoutCollaborator ==
  ~Truthy(tier_manager) =>
     \A r \in Runs :
        /\ \A fn \in {"can_post", "tier", "get_usage_percent"} : CallsOf(r, fn) = {}
        /\ pc[r] # "idle" =>
              Len(calls[r]) > 0 /\ calls[r][1].fn = "get_recent_posts_formatted"
        /\ ReturnedIn(r, "get_recent_posts_formatted") => CallsOf(r, "chat") # {}
        /\ Returned(r) => "tier" \notin DOMAIN outcome[r].val

\* an ungated run has fetched the history and called the generator
C13_Witness ==
  /\ ~Truthy(tier_manager)
  /\ \E r \in Runs :
        /\ CallsOf(r, "can_post") = {}
        /\ ReturnedIn(r, "get_recent_posts_formatted")
        /\ CallsOf(r, "chat") # {}

\* ------------------------------------------------------------------------
\* C14
\* ------------------------------------------------------------------------
\* the five steps of a run, in pipeline order
StepOrder == <<"can_post", "get_recent_posts_formatted", "chat", "post", "save_post">>

StepRank(fn) == CHOOSE k \in 1..Len(StepOrder) : StepOrder[k] = fn

IsStep(fn) == \E k \in 1..Len(StepOrder) : StepOrder[k] = fn

\* C14: within one run the calls occur in the order quota gate -> history
\* fetch -> generator -> platform post -> save, each at most once; a call is
\* made only after every earlier call has returned (or, for the generator
\* alone, raised); and a call other than the generator's that raised is the
\* last call of a run that has ended.
C14_StrictSequence ==
  \A r \in Runs :
     /\ \A i \in 1..Len(calls[r]) : \A j \in 1..Len(calls[r]) :
          (i < j /\ IsStep(calls[r][i].fn) /\ IsStep(calls[r][j].fn)) =>
             StepRank(calls[r][i].fn) < StepRank(calls[r][j].fn)
     /\ \A i \in 1..Len(calls[r]) :
          /\ i < Len(calls[r]) =>
               \/ calls[r][i].out.st = "ret"
               \/ calls[r][i].fn = "chat" /\ calls[r][i].out.st = "raise"
          /\ (calls[r][i].out.st = "raise" /\ calls[r][i].fn # "chat") =>
               i = Len(calls[r]) /\ pc[r] = "done"
          /\ calls[r][i].out.st = "pending" => i = Len(calls[r]) /\ pc[r] # "done"

\* a gated run has made all five calls, one after the other
C14_Witness ==
  \E r \in Runs :
     /\ Len(calls[r]) = Len(StepOrder)
     /\ \A k \in 1..Len(StepOrder) : calls[r][k].fn = StepOrder[k]
     /\ \A k \in 1..Len(StepOrder) : calls[r][k].out.st = "ret"
     /\ pc[r] = "done"

\* ------------------------------------------------------------------------
\* C15
\* ------------------------------------------------------------------------
\* C15: when save_post raises after the platform post has succeeded, run()
\* returns success = false with the message of the save's exception and no
\* tweet_id, the tweet stays on the platform, the store holds no record of
\* it, and neither the post nor the save is called a second time.
C15_SaveFailureAfterPublish ==
  \A r \in Runs :
     RaisedIn(r, "save_post") =>
        /\ pc[r] = "done"
        /\ outcome[r].st = "ret"
        /\ outcome[r].val.success = FALSE
        /\ \E i \in CallsOf(r, "save_post") :
              outcome[r].val.error = str(calls[r][i].out.exc)
        /\ "tweet_id" \notin DOMAIN outcome[r].val
        /\ PostedId(r).n \in 1..Len(timeline)
        /\ timeline[PostedId(r).n] = PostedText(r)
        /\ \A k \in 1..Len(db) : db[k].tweet_id # PostedId(r)
        /\ Cardinality(CallsOf(r, "post")) = 1
        /\ Cardinality(CallsOf(r, "save_post")) = 1

\* a run has published its tweet and failed on the save
C15_Witness ==
  \E r \in Runs :
     /\ RaisedIn(r, "save_post") /\ Returned(r)
     /\ PostGaveId(r)
     /\ timeline[PostedId(r).n] = PostedText(r)
     /\ ~outcome[r].val.success

\* ------------------------------------------------------------------------
\* C16
\* ------------------------------------------------------------------------
\* the texts the store holds, oldest first
StoredTexts == [k \in 1..Len(db) |-> db[k].text]

\* the history run r put into its generator context
Context(r) ==
  LET i == CHOOSE i \in CallsOf(r, "chat") : TRUE IN calls[r][i].args[1][2].content

\* C16: run() holds no lock: whatever the other run is doing, a run that has
\* not started can start, and a run suspended on the store (at the history
\* fetch or at the save) can resume; and the history in a run's context is
\* the store as it was when the fetch returned (a prefix of what the store
\* holds now), so it has none of the texts saved later.
C16_NoLock ==
  \A r \in Runs :
     /\ pc[r] = "idle" => ENABLED Start(r)
     /\ pc[r] = "fetch" => ENABLED FetchReturn(r)
     /\ pc[r] = "save" => ENABLED SaveReturn(r)
     /\ CallsOf(r, "chat") # {} =>
          /\ Len(Context(r)) <= Len(db)
          /\ \A k \in 1..Len(Context(r)) : Context(r)[k] = StoredTexts[k]

\* both runs fetched the history before either saved: both contexts are
\* empty, both runs published and saved, and the two posts are identical
C16_Witness ==
  \E a \in Runs, b \in Runs :
     /\ a # b
     /\ Returned(a) /\ outcome[a].val.success
     /\ Returned(b) /\ outcome[b].val.success
     /\ Context(a) = <<>> /\ Context(b) = <<>>
     /\ Len(db) = 2 /\ Len(timeline) = 2
     /\ db[1].text = db[2].text

\* ------------------------------------------------------------------------
\* C17
\* ------------------------------------------------------------------------
\* C17: run() returns success = true exactly when the platform post returned
\* a response with an id and save_post then completed; the result then has
\* the id the platform returned and the text that was passed to the post and
\* to save_post, and the record is saved with include_picture = false.
C17_SuccessIff ==
  \A r \in Runs :
     pc[r] = "done" =>
        /\ outcome[r].st = "ret"
        /\ outcome[r].val.success = TRUE <=> (PostGaveId(r) /\ ReturnedIn(r, "save_post"))
        /\ outcome[r].val.success = TRUE =>
             /\ outcome[r].val.tweet_id = PostedId(r)
             /\ outcome[r].val.text = PostedText(r)
             /\ \A i \in CallsOf(r, "save_post") :
                  calls[r][i].args = <<PostedText(r), PostedId(r), FALSE>>
             /\ \E k \in 1..Len(db) :
                  /\ db[k].tweet_id = PostedId(r)
                  /\ db[k].text = PostedText(r)
                  /\ db[k].include_picture = FALSE

\* a run has succeeded, and another has failed on its save after publishing
C17_Witness ==
  \E a \in Runs, b \in Runs :
     /\ Returned(a) /\ outcome[a].val.success
     /\ outcome[a].val.tweet_id = PostedId(a)
     /\ Returned(b) /\ ~outcome[b].val.success /\ PostGaveId(b)

\* ------------------------------------------------------------------------
\* C18
\* ------------------------------------------------------------------------
\* C18: for every generator output the text left by the non-empty check and
\* the clamp, which run() passes to TwitterClient.post, has at least one
\* character and no whitespace at either end, so TwitterClient.post does not
\* raise its "Cannot post empty tweet" ValueError on it.
C18_PostTextNeverEmpty ==
  clamp_out # Pending =>
     /\ Len(clamp_out.val) > 0
     /\ \E k \in 1..Len(clamp_out.val) : clamp_out.val[k] \notin Whitespace
     /\ Trimmed(clamp_out.val)
     /\ TwitterClient_post(Str(clamp_out.val), <<>>, Ret(Dict(EmptyDict))).st = "ret"

\* a whitespace-only output longer than the limit ended as a fallback text
C18_Witness ==
  /\ norm_in.t = "str"
  /\ Len(norm_in.v) > MAX_CHARS
  /\ \A k \in 1..Len(norm_in.v) : norm_in.v[k] \in Whitespace
  /\ clamp_out # Pending
  /\ clamp_out.val \in FallbackPool

\* ------------------------------------------------------------------------
\* C19
\* ------------------------------------------------------------------------
\* a string with a character that is not whitespace
NonBlankStr(value) ==
  value.t = "str" /\ \E k \in 1..Len(value.v) : value.v[k] \notin Whitespace

\* t is s without the whitespace at its two ends
IsTrimOf(t, s) ==
  /\ Len(t) > 0
  /\ t[1] \notin Whitespace
  /\ t[Len(t)] \notin Whitespace
  /\ \E p \in 0..Len(s) :
        /\ p + Len(t) <= Len(s)
        /\ \A k \in 1..Len(s) :
              IF k > p /\ k <= p + Len(t) THEN s[k] = t[k - p] ELSE s[k] \in Whitespace

\* the positions, in the order post, text, content, tweet, of the keys of d
\* that are present with a non-blank string value
Qualifying(d) ==
  {i \in 1..4 : <<"post", "text", "content", "tweet">>[i] \in DOMAIN d
                /\ NonBlankStr(d[<<"post", "text", "content", "tweet">>[i]])}

\* C19: for a dict output the normalizer returns the trimmed value of the
\* first key, in the order post, text, content, tweet, whose value is a
\* non-blank string, skipping keys that are missing or hold a non-string or
\* a blank string; when no key qualifies, or the output is neither a
\* non-blank string nor a dict, it returns a member of the Fallback Pool.
C19_FirstQualifyingKey ==
  norm_out # Pending =>
     /\ norm_out.st = "ret"
     /\ norm_out.val.t = "str"
     /\ (norm_in.t = "dict" /\ Qualifying(norm_in.v) # {}) =>
           \E i \in Qualifying(norm_in.v) :
              /\ \A j \in Qualifying(norm_in.v) : i <= j
              /\ IsTrimOf(norm_out.val.v, norm_in.v[<<"post", "text", "content", "tweet">>[i]].v)
     /\ (norm_in.t = "dict" /\ Qualifying(norm_in.v) = {}) =>
           norm_out.val.v \in FallbackPool
     /\ (norm_in.t # "dict" /\ ~NonBlankStr(norm_in)) =>
           norm_out.val.v \in FallbackPool

\* post is blank, text is not a string, content and tweet both qualify with
\* different texts, and the result is the trimmed content
C19_Witness ==
  /\ norm_in.t = "dict"
  /\ DOMAIN norm_in.v = {"post", "text", "content", "tweet"}
  /\ norm_in.v["post"].t = "str" /\ ~NonBlankStr(norm_in.v["post"])
  /\ norm_in.v["text"].t = "int"
  /\ NonBlankStr(norm_in.v["content"])
  /\ NonBlankStr(norm_in.v["tweet"])
  /\ norm_out # Pending
  /\ IsTrimOf(norm_out.val.v, norm_in.v["content"].v)
  /\ ~IsTrimOf(norm_out.val.v, norm_in.v["tweet"].v)

====
